---- MODULE Spec2Model ----
(***************************************************************************)
(* State-machine model of the brobiotic web client: the App shell          *)
(* (frontend/src/App.tsx), the ArticleInput, OptionsPanel and              *)
(* ResultsDisplay components and the API client (api/client.ts, kept here  *)
(* as unnamed/part_000).  The backend is an external collaborator: every   *)
(* response it can give is a nondeterministic choice from a small set.     *)
(*                                                                         *)
(* JavaScript values: null and undefined are the strings Null and          *)
(* Undefined, a nullable object is either the record NullObj or a record   *)
(* of its fields, the text of the identifier input is a sequence of        *)
(* one-character strings (so that trim() is computed, not assumed).        *)
(* Fields the handlers never read (title, abstract, authors, ...) are left *)
(* out of the records.                                                     *)
(***************************************************************************)
EXTENDS Integers, Sequences, FiniteSets, TLC

VARIABLES
    identifier,       \* ArticleInput: text of the input (sequence of chars)
    submitted,        \* history: trimmed text of the last submission that
                      \* called onFetch, NoSubmit once the text is edited
    translateEnabled, \* OptionsPanel state
    targetLanguage,
    summarizeEnabled,
    knowledgeLevel,
    activeTab,        \* ResultsDisplay state
    article,          \* App state
    processedResult,
    isLoading,
    error,
    inflight,         \* requests sent whose promise has not settled yet
    response          \* the exchange settled last, NoResponse while a call
                      \* is outstanding and before the first call

vars == <<identifier, submitted, translateEnabled, targetLanguage,
          summarizeEnabled, knowledgeLevel, activeTab, article,
          processedResult, isLoading, error, inflight, response>>

inputVars   == <<identifier, submitted>>
optionVars  == <<translateEnabled, targetLanguage, summarizeEnabled, knowledgeLevel>>
shellVars   == <<article, processedResult, isLoading, error>>
netVars     == <<inflight, response>>

(***************************************************************************)
(* Bounds and input domains                                                *)
(***************************************************************************)
\* Cap on the number of requests outstanding at once (the guards of the
\* real controls keep it at one; the cap is what a broken guard would hit).
MaxOutstanding == 2

Null      == "<null>"
Undefined == "<undefined>"
NullObj   == [isNull |-> TRUE]
NoSubmit  == <<"<none>">>
NoResponse == [op |-> "none"]

\* Texts the user can put into the identifier input.
InputTexts == { <<>>, <<" ">>, <<" ", "a", " ">>, <<"b">> }

\* A subset of OptionsPanel.LANGUAGES and all of OptionsPanel.KNOWLEDGE_LEVELS.
LANGUAGES        == { "English", "Spanish" }
KNOWLEDGE_LEVELS == { "expert", "adjacent", "lay_person" }

TabType == { "original", "summary", "translation" }

\* What window.prompt can return to handleReportClick.
PromptResults == { Null, "", "too vague" }

\* Identifiers the backend resolves articles to.
ArticleIds == { "41514338", "7" }

ErrorStatuses == { 404, 500 }

(***************************************************************************)
(* JavaScript helpers                                                      *)
(***************************************************************************)
\* Truthiness of a string-or-undefined-or-null value.
Truthy(v) == v # Undefined /\ v # Null /\ v # ""

\* a || b on such values.
OrElse(a, b) == IF Truthy(a) THEN a ELSE b

IsSpace(c) == c = " "

RECURSIVE TrimStart(_)
TrimStart(s) ==
    IF s = <<>> THEN <<>>
    ELSE IF IsSpace(Head(s)) THEN TrimStart(Tail(s)) ELSE s

RECURSIVE TrimEnd(_)
TrimEnd(s) ==
    IF s = <<>> THEN <<>>
    ELSE IF IsSpace(s[Len(s)]) THEN TrimEnd(SubSeq(s, 1, Len(s) - 1)) ELSE s

\* as trim, removing leading white space only
trimStartOnly(s) == TrimStart(s)

\* String.prototype.trim
trim(s) == TrimEnd(TrimStart(s))

\* The sequence q without its i-th element.
RemoveAt(q, i) == SubSeq(q, 1, i - 1) \o SubSeq(q, i + 1, Len(q))

(***************************************************************************)
(* API client (api/client.ts)                                              *)
(***************************************************************************)
\* obj.name in JavaScript: undefined when the object has no such property.
Field(obj, name) == IF name \in DOMAIN obj THEN obj[name] ELSE Undefined

Throw(m)  == [threw |-> TRUE, message |-> m]
Return(v) == [threw |-> FALSE, value |-> v]

\* Response bodies: text that is not JSON, or a JSON value.
Unparseable == [parses |-> FALSE]
Json(v)     == [parses |-> TRUE, value |-> v]
JsonNull    == [jsonNull |-> TRUE]

\* fetch() itself rejects (no response at all), or a response with a status.
NetworkError    == [kind |-> "networkError"]
Http(s, b)      == [kind |-> "http", status |-> s, body |-> b]

\* Messages thrown by the platform, not by the client's own code (V8 wording).
FailedToFetch    == "Failed to fetch"
JsonSyntaxError  == "Unexpected token < in JSON at position 0"
NullDetailError  == "Cannot read properties of null (reading 'detail')"

\* Response.ok
Ok(r) == r.status \in 200..299

\* the fallback of `error.detail || ...` in handleResponse
GenericMessage(status) == "HTTP error " \o ToString(status)

\* as ErrorBodyOf, with a catch that supplies no detail
ErrorBodyOfNoDetail(r) == IF r.body.parses THEN r.body.value ELSE [caught |-> TRUE]

\* response.json().catch(() => ({ detail: 'Unknown error' }))
ErrorBodyOf(r) == IF r.body.parses THEN r.body.value ELSE [detail |-> "Unknown error"]

\* as handleResponse, ignoring the detail of the error body
handleResponseNoDetail(r) ==
    IF ~Ok(r)
    THEN Throw(GenericMessage(r.status))
    ELSE IF r.body.parses THEN Return(r.body.value) ELSE Throw(JsonSyntaxError)

\* handleResponse<T>(response): what the returned promise settles to.
handleResponse(r) ==
    IF ~Ok(r)
    THEN LET err == ErrorBodyOf(r)
         IN  IF err = JsonNull
             THEN Throw(NullDetailError)
             ELSE Throw(OrElse(Field(err, "detail"), GenericMessage(r.status)))
    ELSE IF r.body.parses THEN Return(r.body.value) ELSE Throw(JsonSyntaxError)

\* `await fetch(...)` followed by handleResponse: the three client functions
\* differ only in the path and the body they send.
settle(r) == IF r.kind = "networkError" THEN Throw(FailedToFetch) ELSE handleResponse(r)

fetchArticle(id)      == [op |-> "fetch",   path |-> "/articles/fetch",   body |-> [identifier |-> id]]
processArticle(req)   == [op |-> "process", path |-> "/articles/process", body |-> req]
reportBadOutput(req)  == [op |-> "report",  path |-> "/articles/report",  body |-> req]

(***************************************************************************)
(* The backend: everything it may answer                                   *)
(***************************************************************************)
ErrorBodies ==
    { Unparseable, Json(JsonNull), Json([detail |-> "not found"]),
      Json([detail |-> "rate limited"]), Json([detail |-> ""]), Json([message |-> "boom"]) }

FailureResponses ==
    {NetworkError} \cup {Http(s, b) : s \in ErrorStatuses, b \in ErrorBodies}
                   \cup {Http(200, Unparseable)}

OptionalTexts(t) == { Undefined, "", t }

ProcessResults(id) ==
    { [article_id |-> id, summary |-> s, translated_abstract |-> t] :
        s \in OptionalTexts("a summary"), t \in OptionalTexts("a translation") }

FetchResponses == FailureResponses \cup
    { Http(200, Json([article_id |-> a])) : a \in ArticleIds }

ProcessResponses(req) == FailureResponses \cup
    { Http(200, Json(p)) : p \in ProcessResults(req.identifier) }

ReportResponses == FailureResponses \cup
    { Http(200, Json([success |-> TRUE, new_result |-> p])) :
        p \in UNION { ProcessResults(a) : a \in ArticleIds } }

ResponsesTo(request) ==
    CASE request.op = "fetch"   -> FetchResponses
      [] request.op = "process" -> ProcessResponses(request.body)
      [] request.op = "report"  -> ReportResponses

(***************************************************************************)
(* Initial state: the useState initialisers                                *)
(***************************************************************************)
Init ==
    /\ identifier = <<>>
    /\ submitted = NoSubmit
    /\ translateEnabled = FALSE
    /\ targetLanguage = "English"
    /\ summarizeEnabled = TRUE
    /\ knowledgeLevel = "adjacent"
    /\ activeTab = "original"
    /\ article = NullObj
    /\ processedResult = NullObj
    /\ isLoading = FALSE
    /\ error = Null
    /\ inflight = <<>>
    /\ response = NoResponse

\* Sending a request: the promise is pending until the backend answers.
Send(request) ==
    /\ Len(inflight) < MaxOutstanding
    /\ inflight' = Append(inflight, request)
    /\ response' = NoResponse

(***************************************************************************)
(* ArticleInput                                                            *)
(***************************************************************************)
\* <input disabled={isLoading}>
InputDisabled == isLoading


\* as SubmitDisabled, without the loading flag
SubmitDisabledNotLoading == trim(identifier) = <<>>

\* <button type="submit" disabled={isLoading || !identifier.trim()}>
SubmitDisabled == isLoading \/ trim(identifier) = <<>>

\* onChange={(e) => setIdentifier(e.target.value)}
SetIdentifier(text) ==
    /\ ~InputDisabled
    /\ text # identifier
    /\ identifier' = text
    /\ submitted' = NoSubmit
    /\ UNCHANGED <<optionVars, activeTab, shellVars, netVars>>

\* The input has no onBlur prop: when it loses focus no code of the
\* component runs.
InputBlur == UNCHANGED vars


\* as handleFetch, without setProcessedResult(null)
handleFetchKeepsResult(id) ==
    /\ isLoading' = TRUE
    /\ error' = Null
    /\ Send(fetchArticle(id))
    /\ UNCHANGED <<article, processedResult>>

\* App.handleFetch up to its await
handleFetch(id) ==
    /\ isLoading' = TRUE
    /\ error' = Null
    /\ processedResult' = NullObj
    /\ Send(fetchArticle(id))
    /\ UNCHANGED article

\* ArticleInput.handleSubmit, run by the form's submit event (Enter in the
\* input or a click on the submit button; neither is possible while the
\* button is disabled).
handleSubmit ==
    /\ ~SubmitDisabled
    /\ IF trim(identifier) # <<>>
       THEN /\ handleFetch(trim(identifier))
            /\ submitted' = trim(identifier)
       ELSE UNCHANGED <<shellVars, netVars, submitted>>
    /\ UNCHANGED <<identifier, optionVars, activeTab>>

\* as FetchSettled, with a catch that leaves the article alone
FetchSettledKeepsArticle(i, r) ==
    /\ inflight[i].op = "fetch"
    /\ LET out == settle(r)
       IN  IF out.threw
           THEN /\ error' = out.message
                /\ UNCHANGED article
           ELSE /\ article' = out.value
                /\ UNCHANGED error
    /\ isLoading' = FALSE
    /\ inflight' = RemoveAt(inflight, i)
    /\ response' = [op |-> "fetch", resp |-> r]
    /\ UNCHANGED <<inputVars, optionVars, activeTab, processedResult>>


\* as FetchSettled, with a catch that issues the failed request again
FetchSettledRetries(i, r) ==
    /\ inflight[i].op = "fetch"
    /\ LET out == settle(r)
       IN  IF out.threw
           THEN /\ inflight' = Append(RemoveAt(inflight, i), inflight[i])
                /\ UNCHANGED <<article, error, isLoading>>
           ELSE /\ article' = out.value
                /\ isLoading' = FALSE
                /\ inflight' = RemoveAt(inflight, i)
                /\ UNCHANGED error
    /\ response' = [op |-> "fetch", resp |-> r]
    /\ UNCHANGED <<inputVars, optionVars, activeTab, processedResult>>

\* App.handleFetch after its await: try / catch / finally
FetchSettled(i, r) ==
    /\ inflight[i].op = "fetch"
    /\ LET out == settle(r)
       IN  IF out.threw
           THEN /\ error' = out.message
                /\ article' = NullObj
           ELSE /\ article' = out.value
                /\ UNCHANGED error
    /\ isLoading' = FALSE
    /\ inflight' = RemoveAt(inflight, i)
    /\ response' = [op |-> "fetch", resp |-> r]
    /\ UNCHANGED <<inputVars, optionVars, activeTab, processedResult>>

FetchDone ==
    \E i \in DOMAIN inflight : \E r \in ResponsesTo(inflight[i]) : FetchSettled(i, r)

(***************************************************************************)
(* OptionsPanel                                                            *)
(***************************************************************************)
\* onChange of the two checkboxes, the <select> and the radio buttons; the
\* select and the radios are rendered only while their checkbox is checked.
SetTranslateEnabled ==
    /\ translateEnabled' = ~translateEnabled
    /\ UNCHANGED <<inputVars, targetLanguage, summarizeEnabled, knowledgeLevel,
                   activeTab, shellVars, netVars>>

SetTargetLanguage(l) ==
    /\ translateEnabled
    /\ l # targetLanguage
    /\ targetLanguage' = l
    /\ UNCHANGED <<inputVars, translateEnabled, summarizeEnabled, knowledgeLevel,
                   activeTab, shellVars, netVars>>

SetSummarizeEnabled ==
    /\ summarizeEnabled' = ~summarizeEnabled
    /\ UNCHANGED <<inputVars, translateEnabled, targetLanguage, knowledgeLevel,
                   activeTab, shellVars, netVars>>

SetKnowledgeLevel(k) ==
    /\ summarizeEnabled
    /\ k # knowledgeLevel
    /\ knowledgeLevel' = k
    /\ UNCHANGED <<inputVars, translateEnabled, targetLanguage, summarizeEnabled,
                   activeTab, shellVars, netVars>>

\* hasArticle={article !== null}
hasArticle == article # NullObj

\* as canProcess, without the options
canProcessWithoutOptions == hasArticle

\* as canProcess, without the article
canProcessWithoutArticle == translateEnabled \/ summarizeEnabled

\* const canProcess = hasArticle && (translateEnabled || summarizeEnabled)
canProcess == hasArticle /\ (translateEnabled \/ summarizeEnabled)

\* as ProcessDisabled, without the loading flag
ProcessDisabledNotLoading == ~canProcess

\* <button onClick={handleProcess} disabled={isLoading || !canProcess}>
ProcessDisabled == isLoading \/ ~canProcess

\* as ProcessOptions, with the summarize option whatever its checkbox says
ProcessOptionsAlwaysSummarize ==
    (IF translateEnabled
     THEN [translate |-> [target_language |-> targetLanguage]] ELSE <<>>)
    @@
    [summarize |-> [knowledge_level |-> knowledgeLevel]]

\* the options object built by OptionsPanel.handleProcess
ProcessOptions ==
    (IF translateEnabled
     THEN [translate |-> [target_language |-> targetLanguage]] ELSE <<>>)
    @@
    (IF summarizeEnabled
     THEN [summarize |-> [knowledge_level |-> knowledgeLevel]] ELSE <<>>)


\* as handleProcess, without setError(null)
handleProcessKeepsError(options) ==
    IF article = NullObj
    THEN UNCHANGED <<shellVars, netVars>>
    ELSE /\ isLoading' = TRUE
         /\ Send(processArticle([identifier |-> article.article_id] @@ options))
         /\ UNCHANGED <<article, processedResult, error>>

\* App.handleProcess up to its await
handleProcess(options) ==
    IF article = NullObj
    THEN UNCHANGED <<shellVars, netVars>>
    ELSE /\ isLoading' = TRUE
         /\ error' = Null
         /\ Send(processArticle([identifier |-> article.article_id] @@ options))
         /\ UNCHANGED <<article, processedResult>>

\* a click on the Process button
ProcessClick ==
    /\ ~ProcessDisabled
    /\ handleProcess(ProcessOptions)
    /\ UNCHANGED <<inputVars, optionVars, activeTab>>

\* as ProcessSettled, merging the response into the result on display
ProcessSettledMerges(i, r) ==
    /\ inflight[i].op = "process"
    /\ LET out == settle(r)
       IN  IF out.threw
           THEN /\ error' = out.message
                /\ UNCHANGED processedResult
           ELSE /\ processedResult' =
                     IF processedResult = NullObj THEN out.value
                     ELSE [f \in DOMAIN out.value |->
                             IF out.value[f] = Undefined
                             THEN Field(processedResult, f) ELSE out.value[f]]
                /\ UNCHANGED error
    /\ isLoading' = FALSE
    /\ inflight' = RemoveAt(inflight, i)
    /\ response' = [op |-> "process", resp |-> r]
    /\ UNCHANGED <<inputVars, optionVars, activeTab, article>>

\* as ProcessSettled, with a catch that drops the result as handleFetch's does
ProcessSettledClearsResult(i, r) ==
    /\ inflight[i].op = "process"
    /\ LET out == settle(r)
       IN  IF out.threw
           THEN /\ error' = out.message
                /\ processedResult' = NullObj
           ELSE /\ processedResult' = out.value
                /\ UNCHANGED error
    /\ isLoading' = FALSE
    /\ inflight' = RemoveAt(inflight, i)
    /\ response' = [op |-> "process", resp |-> r]
    /\ UNCHANGED <<inputVars, optionVars, activeTab, article>>

\* App.handleProcess after its await
ProcessSettled(i, r) ==
    /\ inflight[i].op = "process"
    /\ LET out == settle(r)
       IN  IF out.threw
           THEN /\ error' = out.message
                /\ UNCHANGED processedResult
           ELSE /\ processedResult' = out.value
                /\ UNCHANGED error
    /\ isLoading' = FALSE
    /\ inflight' = RemoveAt(inflight, i)
    /\ response' = [op |-> "process", resp |-> r]
    /\ UNCHANGED <<inputVars, optionVars, activeTab, article>>

ProcessDone ==
    \E i \in DOMAIN inflight : \E r \in ResponsesTo(inflight[i]) : ProcessSettled(i, r)

(***************************************************************************)
(* ResultsDisplay                                                          *)
(***************************************************************************)
\* processedResult?.name
ResultField(name) ==
    IF processedResult = NullObj THEN Undefined ELSE Field(processedResult, name)

\* const hasProcessedContent = processedResult?.summary || processedResult?.translated_abstract
hasProcessedContent == OrElse(ResultField("summary"), ResultField("translated_abstract"))

\* as availableTabs, offering a tab for a field that is present but empty
availableTabsByPresence ==
    {"original"}
    \cup (IF ResultField("summary") # Undefined THEN {"summary"} ELSE {})
    \cup (IF ResultField("translated_abstract") # Undefined THEN {"translation"} ELSE {})

\* the ids of tabs.filter((t) => t.available)
availableTabs ==
    {"original"}
    \cup (IF Truthy(ResultField("summary")) THEN {"summary"} ELSE {})
    \cup (IF Truthy(ResultField("translated_abstract")) THEN {"translation"} ELSE {})

\* as effectiveTab, preferring the translation
effectiveTabTranslationFirst ==
    IF activeTab = "original" /\ Truthy(hasProcessedContent)
    THEN IF Truthy(ResultField("translated_abstract")) THEN "translation" ELSE "summary"
    ELSE activeTab

\* const effectiveTab = activeTab === 'original' && hasProcessedContent ? ... : activeTab
effectiveTab ==
    IF activeTab = "original" /\ Truthy(hasProcessedContent)
    THEN IF Truthy(ResultField("summary")) THEN "summary" ELSE "translation"
    ELSE activeTab

\* the component returns the placeholder, and nothing else, without an article
ResultsRendered == article # NullObj

\* {availableTabs.length > 1 && <nav> ... }
TabBarRendered == ResultsRendered /\ Cardinality(availableTabs) > 1

\* onClick={() => setActiveTab(tab.id)} of a button of the tab bar
SelectTab(t) ==
    /\ TabBarRendered
    /\ t \in availableTabs
    /\ activeTab' = t
    /\ UNCHANGED <<inputVars, optionVars, shellVars, netVars>>

\* as PanelRendered, showing every panel that has content
PanelRenderedAnyTab(resultType) ==
    /\ ResultsRendered
    /\ Truthy(ResultField(IF resultType = "summary" THEN "summary"
                                                    ELSE "translated_abstract"))

\* {effectiveTab === 'summary' && processedResult?.summary && ...},
\* {effectiveTab === 'translation' && processedResult?.translated_abstract && ...}
PanelRendered(resultType) ==
    /\ ResultsRendered
    /\ effectiveTab = resultType
    /\ Truthy(ResultField(IF resultType = "summary" THEN "summary"
                                                    ELSE "translated_abstract"))


\* as ReportDisabled, never disabled
ReportDisabledNever == FALSE

\* <button onClick={() => handleReportClick(...)} disabled={isLoading}>
ReportDisabled == isLoading

\* as ReportRequest, passing on whatever the prompt returned
ReportRequestRawComment(resultType, comment) ==
    [ pmid            |-> ResultField("pmid"),
      result_type     |-> resultType,
      target_language |-> ResultField("target_language"),
      knowledge_level |-> ResultField("knowledge_level"),
      comment         |-> comment ]

\* the request object built by ResultsDisplay.handleReportClick
ReportRequest(resultType, comment) ==
    [ pmid            |-> ResultField("pmid"),
      result_type     |-> resultType,
      target_language |-> ResultField("target_language"),
      knowledge_level |-> ResultField("knowledge_level"),
      comment         |-> OrElse(comment, Undefined) ]

\* App.handleReport up to its await
handleReport(request) ==
    /\ isLoading' = TRUE
    /\ error' = Null
    /\ Send(reportBadOutput(request))
    /\ UNCHANGED <<article, processedResult>>

\* ResultsDisplay.handleReportClick; comment is what window.prompt returned
handleReportClick(resultType, comment) ==
    IF processedResult = NullObj
    THEN UNCHANGED <<shellVars, netVars>>
    ELSE handleReport(ReportRequest(resultType, comment))

\* a click on the Report button of the panel of resultType, answered by the
\* user with comment
ReportClickWith(resultType, comment) ==
    /\ PanelRendered(resultType)
    /\ ~ReportDisabled
    /\ handleReportClick(resultType, comment)
    /\ UNCHANGED <<inputVars, optionVars, activeTab>>

\* a click on the Report button of the panel shown
ReportClick ==
    \E resultType \in {"summary", "translation"} : \E comment \in PromptResults :
        ReportClickWith(resultType, comment)

\* as ReportSettled, storing the whole response body
ReportSettledStoresBody(i, r) ==
    /\ inflight[i].op = "report"
    /\ LET out == settle(r)
       IN  IF out.threw
           THEN /\ error' = out.message
                /\ UNCHANGED processedResult
           ELSE /\ processedResult' = out.value
                /\ UNCHANGED error
    /\ isLoading' = FALSE
    /\ inflight' = RemoveAt(inflight, i)
    /\ response' = [op |-> "report", resp |-> r]
    /\ UNCHANGED <<inputVars, optionVars, activeTab, article>>


\* as ReportSettled, with setIsLoading(false) at the end of the try block
\* instead of in finally
ReportSettledNoFinally(i, r) ==
    /\ inflight[i].op = "report"
    /\ LET out == settle(r)
       IN  IF out.threw
           THEN /\ error' = out.message
                /\ UNCHANGED <<processedResult, isLoading>>
           ELSE /\ processedResult' = out.value.new_result
                /\ isLoading' = FALSE
                /\ UNCHANGED error
    /\ inflight' = RemoveAt(inflight, i)
    /\ response' = [op |-> "report", resp |-> r]
    /\ UNCHANGED <<inputVars, optionVars, activeTab, article>>


\* as ReportSettled, with a catch that drops the result as handleFetch's
\* drops the article
ReportSettledClearsResult(i, r) ==
    /\ inflight[i].op = "report"
    /\ LET out == settle(r)
       IN  IF out.threw
           THEN /\ error' = out.message
                /\ processedResult' = NullObj
           ELSE /\ processedResult' = out.value.new_result
                /\ UNCHANGED error
    /\ isLoading' = FALSE
    /\ inflight' = RemoveAt(inflight, i)
    /\ response' = [op |-> "report", resp |-> r]
    /\ UNCHANGED <<inputVars, optionVars, activeTab, article>>

\* App.handleReport after its await
ReportSettled(i, r) ==
    /\ inflight[i].op = "report"
    /\ LET out == settle(r)
       IN  IF out.threw
           THEN /\ error' = out.message
                /\ UNCHANGED processedResult
           ELSE /\ processedResult' = out.value.new_result
                /\ UNCHANGED error
    /\ isLoading' = FALSE
    /\ inflight' = RemoveAt(inflight, i)
    /\ response' = [op |-> "report", resp |-> r]
    /\ UNCHANGED <<inputVars, optionVars, activeTab, article>>

ReportDone ==
    \E i \in DOMAIN inflight : \E r \in ResponsesTo(inflight[i]) : ReportSettled(i, r)

(***************************************************************************)
(* Specification                                                           *)
(***************************************************************************)
Next ==
    \/ \E text \in InputTexts : SetIdentifier(text)
    \/ handleSubmit
    \/ FetchDone
    \/ SetTranslateEnabled
    \/ \E l \in LANGUAGES : SetTargetLanguage(l)
    \/ SetSummarizeEnabled
    \/ \E k \in KNOWLEDGE_LEVELS : SetKnowledgeLevel(k)
    \/ ProcessClick
    \/ ProcessDone
    \/ \E t \in TabType : SelectTab(t)
    \/ ReportClick
    \/ ReportDone

Spec == Init /\ [][Next]_vars


TypeOK ==
    /\ identifier \in InputTexts
    /\ translateEnabled \in BOOLEAN /\ summarizeEnabled \in BOOLEAN
    /\ targetLanguage \in LANGUAGES /\ knowledgeLevel \in KNOWLEDGE_LEVELS
    /\ activeTab \in TabType
    /\ isLoading \in BOOLEAN
    /\ Len(inflight) <= MaxOutstanding

(***************************************************************************)
(* Properties                                                              *)
(***************************************************************************)
\* the step sends a new request of kind op
Sends(op) ==
    /\ Len(inflight') = Len(inflight) + 1
    /\ inflight'[Len(inflight')].op = op

\* the step is the settling of a call of kind op
Settles(op) == response' # response /\ response'.op = op

\* the exchange settled last was a call of kind op that failed
Failed(op) == response.op = op /\ settle(response.resp).threw

\* the exchange settled last got a non-2xx response
NonOkResponse ==
    /\ response # NoResponse
    /\ response.resp.kind = "http"
    /\ ~Ok(response.resp)

\* C1: submitting the form again with the same trimmed identifier and no
\* edit of the text in between sends no second fetch request, also when the
\* first fetch has completed.
C1_RepeatSubmitSuppressed ==
    [][ (submitted # NoSubmit /\ trim(identifier) = submitted) => ~Sends("fetch") ]_vars

\* C2: with 'original' selected, the effective tab is 'summary' when the
\* result has a non-empty summary, else 'translation' when it has a
\* non-empty translated_abstract, else 'original' (also without a result).
C2_EffectiveTabFromOriginal ==
    activeTab = "original" =>
        effectiveTab =
            IF processedResult # NullObj /\ processedResult.summary \notin {Undefined, ""}
            THEN "summary"
            ELSE IF processedResult # NullObj
                    /\ processedResult.translated_abstract \notin {Undefined, ""}
                 THEN "translation"
                 ELSE "original"

C2_Witness ==
    /\ activeTab = "original"
    /\ processedResult # NullObj
    /\ processedResult.summary = "a summary"
    /\ processedResult.translated_abstract = "a translation"
    /\ effectiveTab = "summary"

\* C3: a click on an offered tab T makes T the effective tab (in particular
\* 'original' can be shown again next to a summary or translation).
C3_ClickedTabIsEffective ==
    [][ activeTab' # activeTab => effectiveTab' = activeTab' ]_vars

\* C4: at most one of fetch, process and report is in flight.
C4_AtMostOneInFlight == Len(inflight) <= 1

C4_Witness ==
    /\ isLoading
    /\ Len(inflight) = 1
    /\ inflight[1].op = "process"
    /\ trim(identifier) # <<>>
    /\ canProcess
    /\ PanelRendered("summary")

\* C5 as stated: the Process button is enabled iff an article is loaded and
\* translate or summarize is on, also while a request is in flight.
C5_EnabledIffArticleAndOption ==
    ~ProcessDisabled <=> (article # NullObj /\ (translateEnabled \/ summarizeEnabled))

\* C5 amended: the Process button is enabled iff no request is in flight,
\* an article is loaded and translate or summarize is on.
C5_EnabledIffIdleArticleAndOption ==
    ~ProcessDisabled <=>
        (~isLoading /\ article # NullObj /\ (translateEnabled \/ summarizeEnabled))

C5_Witness ==
    /\ isLoading
    /\ article # NullObj
    /\ translateEnabled /\ ~summarizeEnabled
    /\ ProcessDisabled

\* C6: after a failed fetch the article is null, error is a message and
\* isLoading is false, whatever article was shown before.
C6_FailedFetchClearsArticle ==
    Failed("fetch") =>
        /\ article = NullObj
        /\ error # Null /\ error = settle(response.resp).message
        /\ ~isLoading

\* the summary tab can only have been selected with an article on display
C6_Witness ==
    /\ Failed("fetch")
    /\ activeTab = "summary"
    /\ article = NullObj

\* C7: from the start of a process request to its failure article and
\* processedResult do not change; the failure sets error to the message and
\* isLoading to false.
C7_FailedProcessKeepsResult ==
    [][ /\ (\E i \in DOMAIN inflight' : inflight'[i].op = "process")
            => (article' = article /\ processedResult' = processedResult)
        /\ (Settles("process") /\ settle(response'.resp).threw)
            => /\ article' = article
               /\ processedResult' = processedResult
               /\ error' = settle(response'.resp).message
               /\ ~isLoading' ]_vars

C7_Witness ==
    /\ Failed("process")
    /\ processedResult # NullObj
    /\ error # Null
    /\ ~isLoading

\* C8: a non-2xx response whose JSON body has a non-empty detail d fails
\* the call with message d, and d is what error holds.
C8_DetailIsTheMessage ==
    (/\ NonOkResponse
     /\ response.resp.body.parses
     /\ response.resp.body.value # JsonNull
     /\ Field(response.resp.body.value, "detail") \notin {Undefined, ""})
    => /\ settle(response.resp) = Throw(response.resp.body.value.detail)
       /\ error = response.resp.body.value.detail

C8_Witness ==
    /\ response.op = "report"
    /\ NonOkResponse
    /\ response.resp.body = Json([detail |-> "rate limited"])
    /\ error = "rate limited"

\* C9 as stated: a non-2xx response with status s and a body that is not
\* JSON fails the call with "HTTP error s".
C9_UnparseableGivesHttpError ==
    (NonOkResponse /\ ~response.resp.body.parses)
    => /\ settle(response.resp) = Throw("HTTP error " \o ToString(response.resp.status))
       /\ error = "HTTP error " \o ToString(response.resp.status)

\* C9 amended: a non-2xx response with a body that is not JSON fails the
\* call with "Unknown error", whatever the status.
C9_UnparseableGivesUnknownError ==
    (NonOkResponse /\ ~response.resp.body.parses)
    => /\ settle(response.resp) = Throw("Unknown error")
       /\ error = "Unknown error"

C9_Witness ==
    /\ response.op = "process"
    /\ NonOkResponse
    /\ response.resp.status = 500
    /\ ~response.resp.body.parses
    /\ error = "Unknown error"

\* C10: a non-2xx response with status s whose body is JSON without a
\* detail field, or with an empty one, fails the call with "HTTP error s".
C10_NoDetailGivesHttpError ==
    (/\ NonOkResponse
     /\ response.resp.body.parses
     /\ \/ response.resp.body.value = JsonNull
        \/ Field(response.resp.body.value, "detail") \in {Undefined, ""})
    => /\ settle(response.resp) = Throw("HTTP error " \o ToString(response.resp.status))
       /\ error = "HTTP error " \o ToString(response.resp.status)

\* the exchange settled last was a call of kind op that succeeded
Succeeded(op) == response.op = op /\ ~settle(response.resp).threw

\* the request the step has sent (when it Sends)
Sent == inflight'[Len(inflight')]

\* C11: a successful report makes processedResult the response's
\* new_result, leaves article alone and sets isLoading to false.
C11_ReportReplacesResult ==
    [][ (Settles("report") /\ ~settle(response'.resp).threw)
        => /\ processedResult' = response'.resp.body.value.new_result
           /\ article' = article
           /\ ~isLoading' ]_vars

\* the summary tab was selected on a result with a summary; the new result
\* has none
C11_Witness ==
    /\ Succeeded("report")
    /\ activeTab = "summary"
    /\ processedResult = response.resp.body.value.new_result
    /\ processedResult.summary = Undefined
    /\ article # NullObj
    /\ ~isLoading

\* what the comment of the request is to be for an answer of the prompt
ExpectedComment(answer) == IF answer \in {Null, ""} THEN Undefined ELSE answer

\* C12: a click on Report sends one report request whatever the prompt
\* returned: without a comment when it returned null or "", with the
\* comment unchanged otherwise.
C12_CommentOrUndefined ==
    \A resultType \in {"summary", "translation"} : \A answer \in PromptResults :
        (PanelRendered(resultType) /\ ~ReportDisabled)
        => /\ ENABLED ReportClickWith(resultType, answer)
           /\ ~ ENABLED ( /\ ReportClickWith(resultType, answer)
                          /\ ~ ( /\ Sends("report")
                                 /\ Sent.body.comment = ExpectedComment(answer) ) )

C12_Witness ==
    /\ PanelRendered("summary")
    /\ ~ReportDisabled
    /\ ENABLED ( /\ ReportClickWith("summary", Null)
                 /\ Sent.body.comment = Undefined )

\* C13: a report request carries, as article_id, the non-empty article_id
\* of the processed result on display.
C13_ReportCarriesArticleId ==
    \A i \in DOMAIN inflight :
        inflight[i].op = "report"
        => /\ Field(inflight[i].body, "article_id") \notin {Undefined, Null, ""}
           /\ Field(inflight[i].body, "article_id") = processedResult.article_id

\* C14: a process request has the article_id of the loaded article as its
\* identifier, a translate field (with the selected language) iff translate
\* is on and a summarize field (with the selected level) iff summarize is on.
C14_ProcessRequestFromOptions ==
    [][ Sends("process")
        => /\ Sent.body.identifier = article.article_id
           /\ ("translate" \in DOMAIN Sent.body) <=> translateEnabled
           /\ translateEnabled
                => Sent.body.translate = [target_language |-> targetLanguage]
           /\ ("summarize" \in DOMAIN Sent.body) <=> summarizeEnabled
           /\ summarizeEnabled
                => Sent.body.summarize = [knowledge_level |-> knowledgeLevel]
           /\ DOMAIN Sent.body \subseteq {"identifier", "translate", "summarize"} ]_vars

C14_Witness ==
    /\ Len(inflight) = 1
    /\ inflight[1].op = "process"
    /\ inflight[1].body = [ identifier |-> "7",
                            translate  |-> [target_language |-> "Spanish"] ]
    /\ article = [article_id |-> "7"]

\* a call of App.handleProcess with the options of the panel, however it
\* came about
HandleProcessCalled ==
    /\ handleProcess(ProcessOptions)
    /\ UNCHANGED <<inputVars, optionVars, activeTab>>

\* C15: no process request is sent without an article or with neither
\* option on; without an article a call of handleProcess changes nothing.
C15_NoProcessWithoutArticleOrOption ==
    [][ /\ Sends("process")
            => (article # NullObj /\ (translateEnabled \/ summarizeEnabled))
        /\ article = NullObj
            => ~ ENABLED (HandleProcessCalled /\ ~ UNCHANGED <<shellVars, netVars>>) ]_vars

\* an article but no option: the only thing between the user and a request
\* without options is the button
C15_Witness ==
    /\ article # NullObj
    /\ ~translateEnabled /\ ~summarizeEnabled
    /\ ~isLoading
    /\ ~ ENABLED ProcessClick

\* t is s without its leading and trailing white space
IsTrimOf(t, s) ==
    /\ \E a \in 0..Len(s) : \E b \in 0..Len(s) :
          /\ a + Len(t) + b = Len(s)
          /\ SubSeq(s, a + 1, a + Len(t)) = t
          /\ \A k \in 1..a : s[k] = " "
          /\ \A k \in (Len(s) - b + 1)..Len(s) : s[k] = " "
    /\ t # <<>> => (t[1] # " " /\ t[Len(t)] # " ")

\* C16: submitting an empty or white-space-only text sends nothing and
\* changes no state of the shell; a fetch sent from the form carries the
\* trimmed text, which is not empty.
C16_SubmitTrimsAndSkipsEmpty ==
    [][ /\ Sends("fetch")
            => /\ Sent.body.identifier # <<>>
               /\ IsTrimOf(Sent.body.identifier, identifier)
        /\ (\A k \in DOMAIN identifier : identifier[k] = " ")
            => /\ ~ Sends("fetch")
               /\ ~ ENABLED (handleSubmit /\ ~ UNCHANGED <<shellVars, netVars>>) ]_vars

C16_Witness ==
    /\ identifier = <<" ", "a", " ">>
    /\ Len(inflight) = 1
    /\ inflight[1] = fetchArticle(<<"a">>)

\* C17: with a non-empty trimmed text in the enabled input, a blur of the
\* input sends a fetch, and so does Enter; a change of the text sends none.
C17_BlurOrEnterFetches ==
    [][ /\ (~InputDisabled /\ trim(identifier) # <<>>)
            => /\ ENABLED (InputBlur /\ Sends("fetch"))
               /\ ENABLED (handleSubmit /\ Sends("fetch"))
        /\ identifier' # identifier => ~ Sends("fetch") ]_vars

\* C18: a successful process request makes processedResult exactly its
\* response; nothing of the previous result survives.
C18_ProcessReplacesResult ==
    Succeeded("process") => processedResult = response.resp.body.value

\* the summary tab was selected on a result with a summary; the result of
\* the last process request has none
C18_Witness ==
    /\ Succeeded("process")
    /\ activeTab = "summary"
    /\ processedResult.summary = Undefined
    /\ processedResult.translated_abstract = "a translation"

\* the tabs the claim wants offered
ExpectedTabs ==
    { t \in TabType :
        \/ t = "original"
        \/ /\ t = "summary"
           /\ processedResult # NullObj
           /\ processedResult.summary \notin {Undefined, ""}
        \/ /\ t = "translation"
           /\ processedResult # NullObj
           /\ processedResult.translated_abstract \notin {Undefined, ""} }

\* C19: the tabs offered are 'original', 'summary' iff the result has a
\* non-empty summary and 'translation' iff it has a non-empty
\* translated_abstract; the tab bar (and so a click on a tab) is there only
\* when more than one tab is offered.
C19_TabsOffered ==
    /\ availableTabs = ExpectedTabs
    /\ TabBarRendered <=> (article # NullObj /\ Cardinality(ExpectedTabs) > 1)
    /\ \A t \in TabType :
          ENABLED SelectTab(t) <=>
              (article # NullObj /\ Cardinality(ExpectedTabs) > 1 /\ t \in ExpectedTabs)

\* a result whose summary is the empty string: one tab only, no tab bar
C19_Witness ==
    /\ article # NullObj
    /\ processedResult # NullObj
    /\ processedResult.summary = ""
    /\ processedResult.translated_abstract = Undefined
    /\ availableTabs = {"original"}
    /\ ~ TabBarRendered

\* C20: a report request has the effective tab of the moment of the click
\* as result_type, the result on display has non-empty content of that
\* type, and none is sent from 'original' or without a result.
C20_ReportIsOfEffectiveTab ==
    [][ Sends("report")
        => /\ processedResult # NullObj
           /\ effectiveTab \in {"summary", "translation"}
           /\ Sent.body.result_type = effectiveTab
           /\ Sent.body.result_type = "summary"
                => processedResult.summary \notin {Undefined, ""}
           /\ Sent.body.result_type = "translation"
                => processedResult.translated_abstract \notin {Undefined, ""} ]_vars

\* a report of the translation of a result that has a summary as well
C20_Witness ==
    /\ Len(inflight) = 1
    /\ inflight[1].op = "report"
    /\ inflight[1].body.result_type = "translation"
    /\ activeTab = "translation"
    /\ processedResult.summary = "a summary"

\* a submit of the form, a click on Process or a click on a Report button;
\* none of them changes the text, the options or the tab, and none is the
\* settling of a call
UserTrigger ==
    /\ UNCHANGED <<identifier, optionVars, activeTab>>
    /\ response' \in {response, NoResponse}
    /\ (handleSubmit \/ ProcessClick \/ ReportClick)

\* C21: a step adds a request exactly when it is a form submit, a Process
\* click or a Report click, and then it adds exactly one; the settling of
\* a call, failed or not, takes its request away and adds none, so a
\* failed request is in flight again only after a new trigger.
C21_NothingRetried ==
    [][ /\ UserTrigger <=> Len(inflight') > Len(inflight)
        /\ Len(inflight') > Len(inflight) => inflight' = Append(inflight, Sent)
        /\ (response' # response /\ response' # NoResponse)
              => \E i \in DOMAIN inflight : inflight' = RemoveAt(inflight, i) ]_vars

\* a fetch has failed and nothing is in flight
C21_Witness ==
    /\ Failed("fetch")
    /\ inflight = <<>>
    /\ error # Null
    /\ trim(identifier) # <<>>

\* what the user can do on the page: every step but the settling of a call
UserAction ==
    \/ \E text \in InputTexts : SetIdentifier(text)
    \/ handleSubmit
    \/ SetTranslateEnabled
    \/ \E l \in LANGUAGES : SetTargetLanguage(l)
    \/ SetSummarizeEnabled
    \/ \E k \in KNOWLEDGE_LEVELS : SetKnowledgeLevel(k)
    \/ ProcessClick
    \/ \E t \in TabType : SelectTab(t)
    \/ ReportClick

\* C22: whenever the error banner is shown, some user action sets error
\* back to null without sending a request.
C22_BannerDismissable ==
    error # Null => ENABLED (UserAction /\ error' = Null /\ inflight' = inflight)

\* the number of content panels rendered: the original abstract under
\* effectiveTab === 'original', the summary and the translation under
\* their tab when their text is not empty
PanelsRendered ==
    Cardinality({t \in TabType :
        \/ t = "original" /\ ResultsRendered /\ effectiveTab = "original"
        \/ t \in {"summary", "translation"} /\ PanelRendered(t)})

\* C23: with an article loaded the effective tab is one of the tabs
\* offered and exactly one content panel is rendered.
C23_EffectiveTabIsOffered ==
    article # NullObj => (effectiveTab \in availableTabs /\ PanelsRendered = 1)

\* a process or report request is in flight
ResultRequestInFlight ==
    \E i \in DOMAIN inflight : inflight[i].op \in {"process", "report"}

C25_FetchClearsResult ==
    [][ /\ Sends("fetch") => processedResult' = NullObj
        /\ (\E i \in DOMAIN inflight' : inflight'[i].op = "fetch")
              => processedResult' = NullObj
        /\ Settles("fetch") => processedResult' = NullObj ]_vars

\* a fetch started with a result on display (its summary tab had been
\* selected) has succeeded
C25_Witness ==
    /\ Succeeded("fetch")
    /\ activeTab = "summary"
    /\ processedResult = NullObj
    /\ article # NullObj

\* C26: isLoading is true exactly in the states in which a fetch, process
\* or report request is in flight; so no settling leaves the flag false
\* with another request still in flight.
C26_LoadingIffOutstanding == isLoading <=> inflight # <<>>

\* a report request is in flight and the flag is up
C26_Witness ==
    /\ isLoading
    /\ Len(inflight) = 1
    /\ inflight[1].op = "report"
    /\ inflight[1].body.comment = "too vague"

\* C27: the step in which a network call settles, with a response or a
\* rejection, leaves isLoading false, and isLoading is true only while a
\* call has not settled yet; so no settled request leaves the controls
\* disabled.
C27_SettlingClearsLoading ==
    [][ /\ (response' # response /\ response' # NoResponse) => ~isLoading'
        /\ isLoading' => inflight' # <<>> ]_vars

\* a report has failed and the Report button can be clicked again
C27_Witness ==
    /\ Failed("report")
    /\ ~isLoading
    /\ ENABLED ReportClick

\* C28: a step that sends a request leaves error null, and in a state
\* with no request in flight error is non-null exactly when a call has
\* settled and the one settled last failed.
C28_ErrorIffLastFailed ==
    [][ /\ Len(inflight') > Len(inflight) => error' = Null
        /\ inflight = <<>>
              => (error # Null
                    <=> (response # NoResponse /\ settle(response.resp).threw)) ]_vars

\* a process request has failed with the detail of the error body
C28_Witness ==
    /\ Failed("process")
    /\ inflight = <<>>
    /\ error = "rate limited"
    /\ processedResult = NullObj

\* C29: from the sending of a report request to its failure article and
\* processedResult do not change, and the failing step changes nothing of
\* the page but error, set to the failure message, and isLoading, set to
\* false.
C29_FailedReportKeepsResult ==
    [][ /\ (Sends("report") \/ \E i \in DOMAIN inflight : inflight[i].op = "report")
              => (Settles("report") /\ ~settle(response'.resp).threw)
                 \/ (article' = article /\ processedResult' = processedResult)
        /\ (Settles("report") /\ settle(response'.resp).threw)
              => /\ error' = settle(response'.resp).message
                 /\ ~isLoading'
                 /\ UNCHANGED <<article, processedResult, activeTab,
                                inputVars, optionVars>> ]_vars

\* a report of a translation has failed; the translation is still shown
C29_Witness ==
    /\ Failed("report")
    /\ PanelRendered("translation")
    /\ error # Null
    /\ ~isLoading

====
